---- MODULE Spec2Model ----
(***************************************************************************)
(* git-linecat: the streaming line classifier of src/main.rs.              *)
(*                                                                         *)
(* `run` folds a three-state machine (State::Reset, State::Next(header),   *)
(* State::Emit(header, diff)) over the lines of a git log and hands one    *)
(* Change at a time to an Emitter.  Lines are TLA+ strings; the two recap  *)
(* regexes, the usize deserialisation, Change::categorize and              *)
(* std::path::Path::extension are computed character by character.         *)
(***************************************************************************)
EXTENDS Integers, Sequences, FiniteSets, TLC

VARIABLES repository, consumed, state, emitter, result, input, output

vars == <<repository, consumed, state, emitter, result, input, output>>

----------------------------------------------------------------------------
(* Bounds and input alphabet                                               *)

\* Longest input (number of lines the iterator yields) that is explored.
MaxLines == 6

\* Repository labels given to run.
Repos == {"test", "acme"}

\* The lines the iterator may yield.  Each one is a distinct shape of input:
\*   empty separator; two headers (the second one also contains text that
\*   the path regex matches); two numstat lines; a numstat line whose path
\*   is header-shaped text; a binary marker; a '-' line followed by numstat
\*   text; text that matches neither regex; a numstat line whose first count
\*   exceeds usize.
LineEmpty == ""
LineH1 == "\"a1\",\"x@y\",\"2019 -04\""
LineH2 == "\"b2\",\"u@v\",\"1 2 t\""
LineP1 == "6\t3\tfoo/baz.rs"
LineP2 == "10 0 test/.x"
LinePH == "1 2 \"c\",\"d\",\"e\""
LineB1 == "-\t-\tb.png"
LineB2 == "-1 2 c"
LineG  == "garbage"
LineOV == "18446744073709551616 1 f"

Lines == {LineEmpty, LineH1, LineH2, LineP1, LineP2, LinePH,
          LineB1, LineB2, LineG, LineOV}

----------------------------------------------------------------------------
(* Characters and runs                                                     *)

At(s, i) == SubSeq(s, i, i)

Max(S) == CHOOSE x \in S : \A y \in S : y <= x
Min(S) == CHOOSE x \in S : \A y \in S : x <= y

\* The decimal digits (general category Nd) outside ASCII that a string of
\* this module can hold: the ten digits of each of 18 scripts, from
\* U+06F0 (Extended Arabic-Indic) to U+ABF0 (Meetei Mayek).
NonAsciiDigitChars ==
    "۰۱۲۳۴۵۶۷۸۹" \o "߀߁߂߃߄߅߆߇߈߉" \o "০১২৩৪৫৬৭৮৯"
    \o "૦૧૨૩૪૫૬૭૮૯" \o "௦௧௨௩௪௫௬௭௮௯" \o "೦೧೨೩೪೫೬೭೮೯"
    \o "෦෧෨෩෪෫෬෭෮෯" \o "໐໑໒໓໔໕໖໗໘໙" \o "႐႑႒႓႔႕႖႗႘႙"
    \o "០១២៣៤៥៦៧៨៩" \o "᧐᧑᧒᧓᧔᧕᧖᧗᧘᧙" \o "᪀᪁᪂᪃᪄᪅᪆᪇᪈᪉"
    \o "᪐᪑᪒᪓᪔᪕᪖᪗᪘᪙" \o "᮰᮱᮲᮳᮴᮵᮶᮷᮸᮹" \o "꣐꣑꣒꣓꣔꣕꣖꣗꣘꣙"
    \o "꧐꧑꧒꧓꧔꧕꧖꧗꧘꧙" \o "꧰꧱꧲꧳꧴꧵꧶꧷꧸꧹" \o "꯰꯱꯲꯳꯴꯵꯶꯷꯸꯹"

NonAsciiDigits == {At(NonAsciiDigitChars, i) : i \in 1..Len(NonAsciiDigitChars)}

\* The digits str::parse::<usize> accepts
AsciiDigits == {"0", "1", "2", "3", "4", "5", "6", "7", "8", "9"}

\* regex \d: the patterns carry no (?-u), so it is the Unicode class Nd
IsDigit(c) == c \in AsciiDigits \/ c \in NonAsciiDigits

\* White space that the string syntax has no escape for, written as the
\* characters themselves: the vertical tab U+000B, NEXT LINE U+0085, NO-BREAK
\* SPACE U+00A0 and OGHAM SPACE MARK U+1680.
VerticalTab == ""
NextLine == ""
NoBreakSpace == " "
OghamSpaceMark == " "

\* regex \s: the patterns carry no (?-u), so it is the Unicode class
\* White_Space.  Its members U+2000..U+200A, U+2028, U+2029, U+202F, U+205F
\* and U+3000 cannot be written in a string of this module.
IsSpace(c) ==
    c \in {" ", "\t", "\n", VerticalTab, "\f", "\r",
           NextLine, NoBreakSpace, OghamSpaceMark}

\* regex \S
NonSpace(c) == ~IsSpace(c)

\* regex . (any character but a line feed)
AnyChar(c) == c # "\n"

\* End of the longest run of digits that starts at i (i - 1 when the run is
\* empty): a greedy \d+.
DigitRunEnd(s, i) ==
    LET ends == {j \in i..Len(s) : \A x \in i..j : IsDigit(At(s, x))}
    IN  IF ends = {} THEN i - 1 ELSE Max(ends)

\* The same for white space: a greedy \s+.
SpaceRunEnd(s, i) ==
    LET ends == {j \in i..Len(s) : \A x \in i..j : IsSpace(At(s, x))}
    IN  IF ends = {} THEN i - 1 ELSE Max(ends)

\* The same for anything but white space: a greedy \S+.
NonSpaceRunEnd(s, i) ==
    LET ends == {j \in i..Len(s) : \A x \in i..j : NonSpace(At(s, x))}
    IN  IF ends = {} THEN i - 1 ELSE Max(ends)

\* The literal "," (quote, comma, quote) of the header regex at position p.
IsSep(s, p) == p + 2 <= Len(s) /\ SubSeq(s, p, p + 2) = "\",\""

----------------------------------------------------------------------------
(* Results: Rust's Result and Option as tagged tuples                      *)

Ok(v) == <<"Ok", v>>
Err(e) == <<"Err", e>>
IsOk(r) == r[1] = "Ok"
IsErr(r) == r[1] = "Err"

Some(v) == <<"Some", v>>
None == <<"None">>

\* recap::from_captures when the regex finds no match in the input:
\* envy::Error::Custom("No captures resolved in string '<input>'").
NoCaptures(s) ==
    [type |-> "recap::Error",
     msg  |-> "No captures resolved in string '" \o s \o "'"]

----------------------------------------------------------------------------
(* Header: "(?P<sha>\S+)","(?P<author>\S+)","(?P<timestamp>.+)"            *)

\* Ends q of a timestamp that starts at k + 4, followed by the closing quote.
TimestampEnds(s, k) ==
    {q \in (k + 5)..Len(s) :
        /\ At(s, q) = "\""
        /\ \A x \in (k + 4)..(q - 1) : AnyChar(At(s, x))}

\* Ends k of an author that starts at j + 4 and from which the rest matches.
AuthorEnds(s, j) ==
    {k \in (j + 4)..Len(s) :
        /\ \A x \in (j + 4)..k : NonSpace(At(s, x))
        /\ IsSep(s, k + 1)
        /\ TimestampEnds(s, k) # {}}

\* Ends j of a sha that starts at i + 1 and from which the rest matches.
ShaEnds(s, i) ==
    {j \in (i + 1)..Len(s) :
        /\ \A x \in (i + 1)..j : NonSpace(At(s, x))
        /\ IsSep(s, j + 1)
        /\ AuthorEnds(s, j) # {}}

\* Positions of an opening quote at which the header regex matches.
HeaderStarts(s) ==
    {i \in 1..Len(s) : At(s, i) = "\"" /\ ShaEnds(s, i) # {}}

\* regex::Regex::captures for the Header regex: the leftmost match, each
\* greedy group as long as the rest of the pattern allows.  The regex is
\* not anchored, so the match may begin and end inside the line.
HeaderCaptures(s) ==
    IF HeaderStarts(s) = {} THEN None
    ELSE LET i == Min(HeaderStarts(s))
             j == Max(ShaEnds(s, i))
             k == Max(AuthorEnds(s, j))
             q == Max(TimestampEnds(s, k))
         IN  Some([first     |-> i,
                   last      |-> q,
                   sha       |-> SubSeq(s, i + 1, j),
                   author    |-> SubSeq(s, j + 4, k),
                   timestamp |-> SubSeq(s, k + 4, q - 1)])

\* <Header as FromStr>::from_str
ParseHeader(s) ==
    LET c == HeaderCaptures(s)
    IN  IF c = None THEN Err(NoCaptures(s))
        ELSE Ok([sha       |-> c[2].sha,
                 author    |-> c[2].author,
                 timestamp |-> c[2].timestamp])

----------------------------------------------------------------------------
(* Path: (?P<additions>\d+)\s+(?P<deletions>\d+)\s+(?P<path>\S+)           *)

\* usize::MAX on a 64-bit target, as decimal digits.
UsizeMaxDigits == "18446744073709551615"

DigitValue(c) == CHOOSE d \in 0..9 : At("0123456789", d + 1) = c

\* Faulty variant of DecimalValue: only the last digit counts
DecimalValueLastDigit(s) ==
    IF s = "" THEN 0 ELSE DigitValue(At(s, Len(s)))

\* The number a run of digits denotes.  (TLC's integers end at 2^31 - 1; the
\* counts of the input alphabet are either below that or above usize::MAX.)
RECURSIVE DecimalValue(_)
DecimalValue(s) ==
    IF s = "" THEN 0
    ELSE DecimalValue(SubSeq(s, 1, Len(s) - 1)) * 10 + DigitValue(At(s, Len(s)))

RECURSIVE StripZeros(_)
StripZeros(s) ==
    IF Len(s) > 1 /\ At(s, 1) = "0" THEN StripZeros(SubSeq(s, 2, Len(s))) ELSE s

\* a > b for digit strings of equal length
RECURSIVE DigitsGreater(_, _)
DigitsGreater(a, b) ==
    IF a = "" THEN FALSE
    ELSE LET x == DigitValue(At(a, 1))
             y == DigitValue(At(b, 1))
         IN  IF x # y THEN x > y
             ELSE DigitsGreater(SubSeq(a, 2, Len(a)), SubSeq(b, 2, Len(b)))

\* Whether a run of digits denotes a number above usize::MAX.
ExceedsUsize(digits) ==
    LET d == StripZeros(digits)
    IN  \/ Len(d) > Len(UsizeMaxDigits)
        \/ Len(d) = Len(UsizeMaxDigits) /\ DigitsGreater(d, UsizeMaxDigits)

\* str::parse::<usize> as envy applies it to a captured group.  The run is
\* read from the left: the number overflows at the first digit that takes
\* it above usize::MAX, and the first character that is no ASCII digit is
\* an invalid digit; whichever comes first is the error.
ParseUsize(name, digits) ==
    LET invalid == {i \in 1..Len(digits) : At(digits, i) \notin AsciiDigits}
        read    == IF invalid = {} THEN digits
                   ELSE SubSeq(digits, 1, Min(invalid) - 1)
    IN  IF ExceedsUsize(read)
        THEN Err([type |-> "recap::Error",
                  msg  |-> "number too large to fit in target type while parsing value '"
                           \o digits \o "' provided by " \o name])
        ELSE IF invalid # {}
        THEN Err([type |-> "recap::Error",
                  msg  |-> "invalid digit found in string while parsing value '"
                           \o digits \o "' provided by " \o name])
        ELSE Ok(DecimalValue(digits))

\* The match of the Path regex that begins at position i, if there is one.
\* Every group is a run of one character class followed by a character
\* outside that class, so each greedy group is the whole run.
PathMatchAt(s, i) ==
    LET a == DigitRunEnd(s, i)
        b == SpaceRunEnd(s, a + 1)
        c == DigitRunEnd(s, b + 1)
        d == SpaceRunEnd(s, c + 1)
        e == NonSpaceRunEnd(s, d + 1)
    IN  IF a >= i /\ b > a /\ c > b /\ d > c /\ e > d
        THEN Some([first     |-> i,
                   last      |-> e,
                   additions |-> SubSeq(s, i, a),
                   deletions |-> SubSeq(s, b + 1, c),
                   path      |-> SubSeq(s, d + 1, e)])
        ELSE None

PathStarts(s) == {i \in 1..Len(s) : PathMatchAt(s, i) # None}

\* regex::Regex::captures for the Path regex: the leftmost match (unanchored).
PathCaptures(s) ==
    IF PathStarts(s) = {} THEN None ELSE PathMatchAt(s, Min(PathStarts(s)))

\* <Path as FromStr>::from_str
ParsePath(s) ==
    LET c == PathCaptures(s)
    IN  IF c = None THEN Err(NoCaptures(s))
        ELSE LET a == ParseUsize("additions", c[2].additions)
                 d == ParseUsize("deletions", c[2].deletions)
             IN  IF IsErr(a) THEN a
                 ELSE IF IsErr(d) THEN d
                 ELSE Ok([additions |-> a[2],
                          deletions |-> d[2],
                          path      |-> c[2].path])

----------------------------------------------------------------------------
(* Change: categorize, extension, Into<Change>                             *)

\* str::contains
Contains(s, t) ==
    \E i \in 1..(Len(s) - Len(t) + 1) : SubSeq(s, i, i + Len(t) - 1) = t

\* Faulty variant of categorize: only a leading "test" counts
categorizeLeading(path) ==
    IF Len(path) >= 4 /\ SubSeq(path, 1, 4) = "test" THEN "Test" ELSE "Default"

\* Change::categorize
categorize(path) == IF Contains(path, "test") THEN "Test" ELSE "Default"

\* The pieces of s between the occurrences of the character sep.
RECURSIVE Split(_, _)
Split(s, sep) ==
    LET cuts == {i \in 1..Len(s) : At(s, i) = sep}
    IN  IF cuts = {} THEN <<s>>
        ELSE LET i == Max(cuts)
             IN  Append(Split(SubSeq(s, 1, i - 1), sep), SubSeq(s, i + 1, Len(s)))

\* std::path::Path::file_name on Unix: the last component when it is a
\* normal one.  Empty components and "." are skipped, a leading "/" is the
\* root and a leading "." before "/" or the end is the current directory;
\* neither they nor ".." are a file name.
FileName(path) ==
    LET rooted  == Len(path) >= 1 /\ At(path, 1) = "/"
        curdir  == ~rooted /\ (path = "." \/ (Len(path) >= 2 /\ SubSeq(path, 1, 2) = "./"))
        body    == IF rooted \/ curdir THEN SubSeq(path, 2, Len(path)) ELSE path
        parts   == SelectSeq(Split(body, "/"), LAMBDA c : c # "" /\ c # ".")
    IN  IF parts = <<>> THEN None
        ELSE IF parts[Len(parts)] = ".." THEN None
        ELSE Some(parts[Len(parts)])

\* Faulty variant of Extension: the text after the first '.' of the file name
ExtensionAfterFirstDot(path) ==
    LET f == FileName(path)
    IN  IF f = None THEN None
        ELSE LET name == f[2]
                 dots == {i \in 1..Len(name) : At(name, i) = "."}
             IN  IF dots = {} THEN None
                 ELSE IF Max(dots) = 1 THEN None
                 ELSE Some(SubSeq(name, Min(dots \ {1}) + 1, Len(name)))

\* std::path::Path::extension: the text after the last '.' of the file name,
\* unless the name has no '.' or its only '.' is its first character.
Extension(path) ==
    LET f == FileName(path)
    IN  IF f = None THEN None
        ELSE LET name == f[2]
                 dots == {i \in 1..Len(name) : At(name, i) = "."}
             IN  IF dots = {} THEN None
                 ELSE IF Max(dots) = 1 THEN None
                 ELSE Some(SubSeq(name, Max(dots) + 1, Len(name)))

\* Faulty variant of Into: the two counts land in each other's field
IntoSwapped(repo, header, diff) ==
    [repo      |-> repo,
     sha       |-> header.sha,
     author    |-> header.author,
     timestamp |-> header.timestamp,
     path      |-> diff.path,
     category  |-> categorize(diff.path),
     ext       |-> Extension(diff.path),
     additions |-> diff.deletions,
     deletions |-> diff.additions]

\* Faulty variant of Into: sha and author land in each other's field
IntoCrossed(repo, header, diff) ==
    [repo      |-> repo,
     sha       |-> header.author,
     author    |-> header.sha,
     timestamp |-> header.timestamp,
     path      |-> diff.path,
     category  |-> categorize(diff.path),
     ext       |-> Extension(diff.path),
     additions |-> diff.additions,
     deletions |-> diff.deletions]

\* impl Into<Change> for (String, Header, Path)
Into(repo, header, diff) ==
    [repo      |-> repo,
     sha       |-> header.sha,
     author    |-> header.author,
     timestamp |-> header.timestamp,
     path      |-> diff.path,
     category  |-> categorize(diff.path),
     ext       |-> Extension(diff.path),
     additions |-> diff.additions,
     deletions |-> diff.deletions]

----------------------------------------------------------------------------
(* enum State and the fold closure of run, one operator per match arm      *)

StateReset == <<"Reset">>
StateNext(header) == <<"Next", header>>
StateEmit(header, diff) == <<"Emit", header, diff>>

IsReset(st) == st[1] = "Reset"
IsNext(st) == st[1] = "Next"
IsEmit(st) == st[1] = "Emit"

\* The unit value ()
Unit == <<>>

\* What an Emitter may return from emit: Ok(()) or an error of its own.
SinkError == [type |-> "Emitter::Error", msg |-> "emit failed"]
EmitResults == {Ok(Unit), Err(SinkError)}

\* str::starts_with
StartsWith(s, c) == Len(s) >= 1 /\ At(s, 1) = c

\* The two FromStr impls on the lines of the input alphabet, computed once.
FromStr ==
    [l \in Lines |-> [Header |-> ParseHeader(l), Path |-> ParsePath(l)]]

\* line.parse::<Header>() and line.parse::<Path>() in run
parse_Header(line) == FromStr[line].Header
parse_Path(line) == FromStr[line].Path

\* State::Reset => State::Next(line.parse()?)
ResetArm(line) ==
    LET h == parse_Header(line)
    IN  IF IsErr(h) THEN h ELSE Ok(StateNext(h[2]))

\* Faulty variant of NextArm: the line is parsed before it is tested for '-'
NextArmBinaryLate(header, line) ==
    IF line = "" THEN Ok(StateReset)
    ELSE LET p == parse_Path(line)
         IN  IF IsOk(p) THEN Ok(StateEmit(header, p[2]))
             ELSE IF StartsWith(line, "-") THEN Ok(StateNext(header))
             ELSE LET h == parse_Header(line)
                  IN  IF IsErr(h) THEN h ELSE Ok(StateNext(h[2]))

\* Faulty variant of NextArm: an empty line keeps the header
NextArmEmptyKeeps(header, line) ==
    IF line = "" \/ StartsWith(line, "-") THEN Ok(StateNext(header))
    ELSE LET p == parse_Path(line)
         IN  IF IsOk(p) THEN Ok(StateEmit(header, p[2]))
             ELSE LET h == parse_Header(line)
                  IN  IF IsErr(h) THEN h ELSE Ok(StateNext(h[2]))

\* Faulty variant of NextArm: the header parser is tried before the path parser
NextArmHeaderFirst(header, line) ==
    IF line = "" THEN Ok(StateReset)
    ELSE IF StartsWith(line, "-") THEN Ok(StateNext(header))
    ELSE LET h == parse_Header(line)
         IN  IF IsOk(h) THEN Ok(StateNext(h[2]))
             ELSE LET p == parse_Path(line)
                  IN  IF IsErr(p) THEN p ELSE Ok(StateEmit(header, p[2]))

\* Faulty variant of NextArm: when both parsers fail, the path parser's failure is
\* the one returned
NextArmPathError(header, line) ==
    IF line = "" THEN Ok(StateReset)
    ELSE IF StartsWith(line, "-") THEN Ok(StateNext(header))
    ELSE LET p == parse_Path(line)
         IN  IF IsOk(p) THEN Ok(StateEmit(header, p[2]))
             ELSE LET h == parse_Header(line)
                  IN  IF IsErr(h) THEN p ELSE Ok(StateNext(h[2]))

\* State::Next(header) => { ... }
NextArm(header, line) ==
    IF line = "" THEN Ok(StateReset)
    ELSE IF StartsWith(line, "-") THEN Ok(StateNext(header))
    ELSE LET p == parse_Path(line)
         IN  IF IsOk(p) THEN Ok(StateEmit(header, p[2]))
             ELSE LET h == parse_Header(line)
                  IN  IF IsErr(h) THEN h ELSE Ok(StateNext(h[2]))

\* Faulty variant of EmitArm: the line that arrives is parsed as in State::Next
EmitArmReparses(header, line, emitted) ==
    IF IsErr(emitted) THEN emitted ELSE NextArm(header, line)

\* Faulty variant of EmitArm: the result of emit is dropped
EmitArmIgnoresError(header, line, emitted) ==
    IF line = "" THEN Ok(StateReset) ELSE Ok(StateNext(header))

\* Faulty variant of EmitArm: the header is forgotten after every emission
EmitArmForgets(header, line, emitted) ==
    IF IsErr(emitted) THEN emitted ELSE Ok(StateReset)

\* State::Emit(header, diff) => { emitter.emit(...)?; ... } once emit has
\* returned `emitted`
EmitArm(header, line, emitted) ==
    IF IsErr(emitted) THEN emitted
    ELSE IF line = "" THEN Ok(StateReset)
    ELSE Ok(StateNext(header))

----------------------------------------------------------------------------
(* The arguments of the direct calls                                       *)

\* The unit tests call `"...".parse::<Path>()` and build paths directly,
\* without going through run.  The model does the same on the arguments
\* below.

\* Longest path built from PathChars.
MaxPathLen == 4

\* Characters that decide the category and the extension of a path.
PathChars == {"t", "e", "s", "T", ".", "/"}

\* The strings over PathChars of length n at most.
RECURSIVE StringsUpTo(_)
StringsUpTo(n) ==
    IF n = 0 THEN {""}
    ELSE LET shorter == StringsUpTo(n - 1)
         IN  shorter \cup {s \o c : s \in {t \in shorter : Len(t) = n - 1},
                                       c \in PathChars}

\* Paths handed to Into: the path group is \S+, so never empty.
ProbePaths ==
    (StringsUpTo(MaxPathLen) \ {""})
        \cup {"contest/foo.rs", "/attestation", "foo/test/bar.txt",
              "foo/bar/baz.txt", "a/b/c.rs",
              "a/b/.gitignore", "a/b/noext", "Test/TEST.Test", "a.b/c.d/"}

\* Digit runs that fit in usize, with the number each one writes.
ProbeCounts ==
    {<<"0", 0>>, <<"7", 7>>, <<"007", 7>>, <<"10", 10>>, <<"123", 123>>,
     <<"2147483647", 2147483647>>}

\* Digit runs that do not fit in usize.
ProbeOverflows == {"18446744073709551616", "99999999999999999999"}

\* Runs of whitespace between the fields.
ProbeSeps == {" ", "\t", "  ", " \t ", VerticalTab}

\* Path fields of the numstat lines handed to the Path parser.
ProbeNames == {"a", "foo/baz.rs", "-", "7", "x\"y"}

\* A numstat line from its five pieces.
NumstatOf(a, w1, d, w2, p) == a \o w1 \o d \o w2 \o p

\* Numstat lines in which a digit run does not fit in usize.
ProbeOverflowLines ==
    {NumstatOf(a, " ", d, " ", "f") :
        a \in ProbeOverflows \cup {"1"}, d \in ProbeOverflows}
    \cup {NumstatOf(a, " ", "1", " ", "f") : a \in ProbeOverflows}

\* Lines handed to the Path parser on their own.
ProbeLines ==
    {NumstatOf(a[1], w1, d[1], w2, p) :
        a \in ProbeCounts, w1 \in ProbeSeps, d \in ProbeCounts,
        w2 \in ProbeSeps, p \in ProbeNames}
    \cup {NumstatOf(a, w1, d, w2, p) :
        a \in {"-"}, w1 \in ProbeSeps, d \in {"-"},
        w2 \in ProbeSeps, p \in ProbeNames}
    \cup ProbeOverflowLines

\* The header the direct calls of Into are given.
ProbeHeader == [sha |-> "a1", author |-> "x@y", timestamp |-> "2019 -04"]

----------------------------------------------------------------------------
(* run                                                                     *)

\* repository : the label given to run
\* consumed   : the lines the iterator has yielded so far, in order
\* state      : the accumulator of try_fold (kept as it was before the step
\*              when the step fails)
\* emitter    : the calls of emitter.emit so far: the Change handed over,
\*              the number of lines consumed when the call was made, and
\*              what emit returned
\* result     : None while run is folding, Some(what run returned) after
\* input      : the argument of a parser or of Into when it is applied on
\*              its own, as the unit tests do; None inside run
\* output     : what that application returned, None before it returns
TypeOK ==
    /\ repository \in Repos
    /\ consumed \in Seq(Lines) /\ Len(consumed) <= MaxLines
    /\ state[1] \in {"Reset", "Next", "Emit"}
    /\ \A i \in 1..Len(emitter) : emitter[i].at \in 1..Len(consumed)
    /\ result[1] \in {"None", "Some"}
    /\ input[1] \in {"None", "Path::from_str", "Change::categorize", "Into"}
    /\ output[1] \in {"None", "Some"}
    /\ input = None => output = None
    /\ input # None => consumed = <<>> /\ result = None

Init ==
    /\ repository \in Repos
    /\ consumed = <<>>
    /\ state = StateReset
    /\ emitter = <<>>
    /\ result = None
    /\ \/ input = None
       \/ input \in {<<"Path::from_str", l>> : l \in ProbeLines}
       \/ input \in {<<"Change::categorize", p>> : p \in ProbePaths}
       \/ input \in {<<"Into", ProbeHeader,
                         [additions |-> 1, deletions |-> 2, path |-> p]>> :
                           p \in ProbePaths}
    /\ output = None

\* The end of one call of the closure that returned r.
Folded(r) ==
    IF IsOk(r)
    THEN state' = r[2] /\ result' = result
    ELSE state' = state /\ result' = Some(r)

\* The iterator yields a line while the state is State::Reset.
StepReset ==
    /\ input = None
    /\ result = None
    /\ IsReset(state)
    /\ Len(consumed) < MaxLines
    /\ \E line \in Lines :
        /\ consumed' = Append(consumed, line)
        /\ Folded(ResetArm(line))
    /\ UNCHANGED <<repository, emitter, input, output>>

\* The iterator yields a line while the state is State::Next(header).
\* Faulty variant of StepNext: a path-stat line is handed to the emitter as
\* soon as it is parsed
StepNextEager ==
    /\ input = None
    /\ result = None
    /\ IsNext(state)
    /\ Len(consumed) < MaxLines
    /\ \E line \in Lines :
        LET r == NextArm(state[2], line)
        IN  /\ consumed' = Append(consumed, line)
            /\ Folded(r)
            /\ emitter' = IF IsOk(r) /\ IsEmit(r[2])
                          THEN Append(emitter,
                                 [change   |-> Into(repository, r[2][2], r[2][3]),
                                  at       |-> Len(consumed) + 1,
                                  returned |-> Ok(Unit)])
                          ELSE emitter
    /\ UNCHANGED <<repository, input, output>>

\* The iterator yields a line while the state is State::Next(header).
StepNext ==
    /\ input = None
    /\ result = None
    /\ IsNext(state)
    /\ Len(consumed) < MaxLines
    /\ \E line \in Lines :
        /\ consumed' = Append(consumed, line)
        /\ Folded(NextArm(state[2], line))
    /\ UNCHANGED <<repository, emitter, input, output>>

\* Faulty variant of StepEmit: the pending Change is handed over twice
StepEmitTwice ==
    /\ input = None
    /\ result = None
    /\ IsEmit(state)
    /\ Len(consumed) < MaxLines
    /\ \E line \in Lines, emitted \in EmitResults :
        LET call == [change   |-> Into(repository, state[2], state[3]),
                     at       |-> Len(consumed) + 1,
                     returned |-> emitted]
        IN  /\ consumed' = Append(consumed, line)
            /\ emitter' = Append(Append(emitter, call), call)
            /\ Folded(EmitArm(state[2], line, emitted))
    /\ UNCHANGED <<repository, input, output>>

\* Faulty variant of StepEmit: the pending Change is handed over only when
\* the line that arrives is empty
StepEmitAtCommitEnd ==
    /\ input = None
    /\ result = None
    /\ IsEmit(state)
    /\ Len(consumed) < MaxLines
    /\ \E line \in Lines, emitted \in EmitResults :
        /\ consumed' = Append(consumed, line)
        /\ emitter' = IF line = ""
                      THEN Append(emitter,
                             [change   |-> Into(repository, state[2], state[3]),
                              at       |-> Len(consumed) + 1,
                              returned |-> emitted])
                      ELSE emitter
        /\ Folded(EmitArm(state[2], line, IF line = "" THEN emitted ELSE Ok(Unit)))
    /\ UNCHANGED <<repository, input, output>>

\* The iterator yields a line while the state is State::Emit(header, diff):
\* the pending Change goes to the emitter, which succeeds or fails.
StepEmit ==
    /\ input = None
    /\ result = None
    /\ IsEmit(state)
    /\ Len(consumed) < MaxLines
    /\ \E line \in Lines, emitted \in EmitResults :
        /\ consumed' = Append(consumed, line)
        /\ emitter' = Append(emitter,
                [change   |-> Into(repository, state[2], state[3]),
                 at       |-> Len(consumed) + 1,
                 returned |-> emitted])
        /\ Folded(EmitArm(state[2], line, emitted))
    /\ UNCHANGED <<repository, input, output>>

\* Faulty variant of Finish: a record still pending is handed to the emitter
FinishFlushes ==
    /\ input = None
    /\ result = None
    /\ result' = Some(Ok(Unit))
    /\ emitter' = IF IsEmit(state)
                  THEN Append(emitter,
                         [change   |-> Into(repository, state[2], state[3]),
                          at       |-> Len(consumed),
                          returned |-> Ok(Unit)])
                  ELSE emitter
    /\ UNCHANGED <<repository, consumed, state, input, output>>

\* Faulty variant of Finish: an input that ends inside a commit is a failure
FinishInsideCommitFails ==
    /\ input = None
    /\ result = None
    /\ result' = IF IsReset(state) THEN Some(Ok(Unit))
                 ELSE Some(Err("unexpected end of input"))
    /\ UNCHANGED <<repository, consumed, state, emitter, input, output>>

\* The iterator is exhausted: try_fold returns Ok(state), map(drop) Ok(()).
Finish ==
    /\ input = None
    /\ result = None
    /\ result' = Some(Ok(Unit))
    /\ UNCHANGED <<repository, consumed, state, emitter, input, output>>

\* A direct call of <Path as FromStr>::from_str, as in path_line_parses.
CallParsePath ==
    /\ input[1] = "Path::from_str"
    /\ output = None
    /\ output' = Some(ParsePath(input[2]))
    /\ UNCHANGED <<repository, consumed, state, emitter, result, input>>

\* A direct call of Change::categorize, as in paths_with_test_are_categorized.
CallCategorize ==
    /\ input[1] = "Change::categorize"
    /\ output = None
    /\ output' = Some(categorize(input[2]))
    /\ UNCHANGED <<repository, consumed, state, emitter, result, input>>

\* A direct call of (repository, header, diff).into().
CallInto ==
    /\ input[1] = "Into"
    /\ output = None
    /\ output' = Some(Into(repository, input[2], input[3]))
    /\ UNCHANGED <<repository, consumed, state, emitter, result, input>>

Next ==
    \/ StepReset \/ StepNext \/ StepEmit \/ Finish
    \/ CallParsePath \/ CallCategorize \/ CallInto

Spec == Init /\ [][Next]_vars

----------------------------------------------------------------------------
(* Vocabulary of the properties                                            *)

\* The kinds of line, as run tells them apart.
HeaderLine(l) == IsOk(parse_Header(l))
BinaryMarkerLine(l) == StartsWith(l, "-")
PathStatLine(l) == l # "" /\ ~BinaryMarkerLine(l) /\ IsOk(parse_Path(l))

\* A line that is, as a whole, <digits><spaces><digits><spaces><path>.
NumstatLine(l) ==
    LET c == PathCaptures(l)
    IN  c # None /\ c[2].first = 1 /\ c[2].last = Len(l)

HeaderOf(l) == parse_Header(l)[2]
PathOf(l) == parse_Path(l)[2]

\* run has returned.
Returned == result # None
ReturnedOk == result = Some(Ok(Unit))
ReturnedErr == Returned /\ IsErr(result[2])

\* In a step: a line was consumed, and which one.
Stepped == consumed' # consumed
Yielded == consumed'[Len(consumed')]

\* The Changes handed to the emitter so far.
Changes == [i \in 1..Len(emitter) |-> emitter[i].change]

----------------------------------------------------------------------------
(* Properties                                                              *)

\* C1: when run has returned on an input [H, P1, P2, ""] with H a header
\* line and P1, P2 path-stat lines, the emitter was called exactly once,
\* with the Change built from H and P1 (the call is made while P2 is
\* processed, so the same holds when that call fails and run stops at P2).
C1_ScenarioB ==
    (/\ Returned
     /\ Len(consumed) \in {3, 4}
     /\ Len(consumed) = 3 => ReturnedErr
     /\ Len(consumed) = 4 => consumed[4] = ""
     /\ HeaderLine(consumed[1])
     /\ PathStatLine(consumed[2])
     /\ PathStatLine(consumed[3]))
    => Changes = <<Into(repository, HeaderOf(consumed[1]), PathOf(consumed[2]))>>

C1_Witness ==
    /\ ReturnedOk
    /\ consumed = <<LineH1, LineP1, LineP2, LineEmpty>>
    /\ Len(emitter) = 1

\* C2: when run has returned on an input [H, P, ""], the emitter was called
\* exactly once, with a Change whose repo is the label given to run, whose
\* sha, author and timestamp are those parsed from H and whose path,
\* additions and deletions are those parsed from P.
C2_ScenarioA ==
    (/\ Returned
     /\ Len(consumed) = 3
     /\ HeaderLine(consumed[1])
     /\ PathStatLine(consumed[2])
     /\ consumed[3] = "")
    => /\ Len(emitter) = 1
       /\ LET c == emitter[1].change
              h == HeaderOf(consumed[1])
              p == PathOf(consumed[2])
          IN  /\ c.repo = repository
              /\ c.sha = h.sha
              /\ c.author = h.author
              /\ c.timestamp = h.timestamp
              /\ c.path = p.path
              /\ c.additions = p.additions
              /\ c.deletions = p.deletions

C2_Witness ==
    /\ ReturnedOk
    /\ repository = "acme"
    /\ consumed = <<LineH1, LineP1, LineEmpty>>
    /\ Len(emitter) = 1
    /\ emitter[1].change.additions = 6
    /\ emitter[1].change.deletions = 3

\* C3, the step: in State::Next(h), a line that begins with '-' leaves the
\* state as it is, calls the emitter zero times and does not fail.
C3_BinaryStep ==
    (result = None /\ IsNext(state) /\ Stepped /\ BinaryMarkerLine(Yielded))
    => (state' = state /\ emitter' = emitter /\ result' = None)

\* C3, the scenario: when run has returned on [H, binary marker, P, ""],
\* the emitter was called exactly once, with the Change built from H and P.
C3_ScenarioD ==
    (/\ Returned
     /\ Len(consumed) = 4
     /\ HeaderLine(consumed[1])
     /\ BinaryMarkerLine(consumed[2])
     /\ PathStatLine(consumed[3])
     /\ consumed[4] = "")
    => Changes = <<Into(repository, HeaderOf(consumed[1]), PathOf(consumed[3]))>>

\* C3: a line beginning with '-' is skipped in State::Next(h) whatever
\* else it contains, and so [H, binary marker, P, ""] yields one Change,
\* built from H and P.
C3_BinarySkipped == [][C3_BinaryStep]_vars /\ []C3_ScenarioD

C3_Witness ==
    /\ ReturnedOk
    /\ consumed = <<LineH1, LineB2, LineP1, LineEmpty>>
    /\ Len(emitter) = 1

\* C4, the step: in State::Next(h), an empty line moves the machine to
\* State::Reset, the state run starts in, without calling the emitter.
C4_EmptyStep ==
    (result = None /\ IsNext(state) /\ Stepped /\ Yielded = "")
    => (state' = StateReset /\ emitter' = emitter /\ result' = None)

\* C4, the scenario: after [H, "", l] nothing has been emitted, and l was
\* treated as the first line of an input is: parsed as a header, with the
\* state State::Next(that header) on success and its failure returned.
C4_ScenarioC ==
    (/\ Len(consumed) >= 2
     /\ HeaderLine(consumed[1])
     /\ consumed[2] = "")
    => /\ Len(consumed) <= 3 => emitter = <<>>
       /\ Len(consumed) = 2 => state = StateReset /\ ~ReturnedErr
       /\ Len(consumed) = 3 =>
            IF HeaderLine(consumed[3])
            THEN state = StateNext(HeaderOf(consumed[3])) /\ ~ReturnedErr
            ELSE result = Some(parse_Header(consumed[3]))

\* C4: an empty line in State::Next(h) resets the machine without emitting:
\* a header followed by an empty line emits nothing, and the line after it
\* is parsed as a header as from the initial state.
C4_EmptyCommit == [][C4_EmptyStep]_vars /\ []C4_ScenarioC

C4_Witness ==
    /\ consumed = <<LineH1, LineEmpty, LineH2>>
    /\ state = StateNext(HeaderOf(LineH2))
    /\ emitter = <<>>
    /\ ReturnedOk

\* C5: a call of the emitter that returned a failure is the last call, run
\* has returned that very failure, and no line was consumed after the one
\* that was being processed when the call was made.
C5_SinkFailureHalts ==
    \A i \in 1..Len(emitter) :
        IsErr(emitter[i].returned)
        => /\ i = Len(emitter)
           /\ result = Some(emitter[i].returned)
           /\ Len(consumed) = emitter[i].at

C5_Witness ==
    /\ Len(emitter) = 2
    /\ IsOk(emitter[1].returned)
    /\ IsErr(emitter[2].returned)
    /\ ReturnedErr
    /\ Len(consumed) < MaxLines

\* C6: whenever the emitter is called, the machine is in
\* State::Emit(header, diff), exactly one Change is handed over, and its
\* sha, author and timestamp are those of header and its path, additions
\* and deletions those of diff.
C6_EmitStep ==
    emitter' # emitter
    => /\ IsEmit(state)
       /\ Len(emitter') = Len(emitter) + 1
       /\ SubSeq(emitter', 1, Len(emitter)) = emitter
       /\ LET c == emitter'[Len(emitter')].change
          IN  /\ c.sha = state[2].sha
              /\ c.author = state[2].author
              /\ c.timestamp = state[2].timestamp
              /\ c.path = state[3].path
              /\ c.additions = state[3].additions
              /\ c.deletions = state[3].deletions

C6_EmittedFromState == [][C6_EmitStep]_vars

C6_Witness ==
    /\ Len(emitter) = 2
    /\ emitter[1].change.sha = "a1"
    /\ emitter[2].change.sha = "b2"
    /\ emitter[2].change.path = "test/.x"

\* C7, the step: when the input is exhausted in State::Emit(header, diff),
\* run returns Ok(()) and the emitter is not called.
C7_ExhaustedStep ==
    (result = None /\ IsEmit(state) /\ result' # None /\ ~Stepped)
    => (result' = Some(Ok(Unit)) /\ emitter' = emitter)

\* C7, the example: on [H, P] run returns Ok(()) with nothing emitted, and
\* once run has returned the emitter is not called again.
C7_HeaderPathOnly ==
    (ReturnedOk /\ Len(consumed) = 2 /\ HeaderLine(consumed[1])
                /\ PathStatLine(consumed[2]))
    => (emitter = <<>> /\ IsEmit(state))

\* C7: a record pending in State::Emit when the input ends is never handed
\* to the emitter, and run returns success.
C7_PendingNotFlushed ==
    /\ [][C7_ExhaustedStep]_vars
    /\ [][Returned => emitter' = emitter]_vars
    /\ []C7_HeaderPathOnly

C7_Witness ==
    /\ ReturnedOk
    /\ consumed = <<LineH1, LineP1>>
    /\ state = StateEmit(HeaderOf(LineH1), PathOf(LineP1))
    /\ emitter = <<>>

\* C8 as claimed: in State::Reset, a line that does not match the header
\* grammar -- an empty line, a path-stat line (a line that is, from its
\* first to its last character, <digits> <digits> <path>) and a binary
\* marker line among them -- makes run return a failure without calling
\* the emitter,
\* and a line that matches moves the machine to State::Next(parsed header)
\* without calling the emitter.
C8_ResetStep ==
    (result = None /\ IsReset(state) /\ Stepped)
    => /\ emitter' = emitter
       /\ IF \/ ~HeaderLine(Yielded)
             \/ Yielded = ""
             \/ NumstatLine(Yielded)
             \/ BinaryMarkerLine(Yielded)
          THEN result' # None /\ IsErr(result'[2])
          ELSE result' = None /\ state' = StateNext(HeaderOf(Yielded))

C8_ResetRejectsNonHeader == [][C8_ResetStep]_vars

\* C9: in State::Next(h), for a non-empty line that does not begin with
\* '-': if the path parser accepts it the next state is State::Emit(h, its
\* stat); otherwise, if the header parser accepts it, the next state is
\* State::Next(new header) and h is gone from the state; otherwise run
\* returns a failure.  The emitter is not called in any of the three cases.
C9_FallbackStep ==
    (result = None /\ IsNext(state) /\ Stepped
        /\ Yielded # "" /\ ~BinaryMarkerLine(Yielded))
    => /\ emitter' = emitter
       /\ IF IsOk(parse_Path(Yielded))
          THEN result' = None /\ state' = StateEmit(state[2], PathOf(Yielded))
          ELSE IF IsOk(parse_Header(Yielded))
          THEN result' = None /\ state' = StateNext(HeaderOf(Yielded))
          ELSE result' # None /\ IsErr(result'[2])

C9_PathThenHeader == [][C9_FallbackStep]_vars

\* A line that both parsers accept was taken as a path-stat line, and a
\* header line that directly follows a header replaced it.
C9_Witness ==
    /\ Len(consumed) = 3
    /\ consumed[1] = LineH1
    /\ consumed[2] = LineH1
    /\ consumed[3] = LineH2
    /\ state = StateEmit(HeaderOf(LineH1), PathOf(LineH2))
    /\ emitter = <<>>

\* C10 as claimed: the failure returned for a line that neither parser
\* accepts in State::Next(h) can be told from the failure returned for a
\* line the header parser rejects in State::Reset (here: from the one
\* State::Reset returns for the same line).
C10_KindsDistinguishable ==
    (ReturnedErr /\ IsNext(state))
    => result # Some(ResetArm(consumed[Len(consumed)]))

\* C10 amended: a failure returned from State::Reset or State::Next(h) is
\* the header parser's failure for the line being processed, the same in
\* both states (the path parser's failure is never returned); a failure of
\* the emitter is returned as the emitter gave it; and a header parser's
\* failure is of another type than the emitter's.
C10_ParseOrSinkFailure ==
    ReturnedErr
    => /\ IsEmit(state) =>
            /\ emitter # <<>>
            /\ result = Some(emitter[Len(emitter)].returned)
       /\ ~IsEmit(state) =>
            /\ result = Some(Err(NoCaptures(consumed[Len(consumed)])))
            /\ \A i \in 1..Len(emitter) :
                 IsErr(emitter[i].returned)
                 => emitter[i].returned[2].type # result[2][2].type

\* A line with a count above usize::MAX failed in State::Next(h).
C10_Witness ==
    /\ ReturnedErr
    /\ IsNext(state)
    /\ consumed = <<LineH1, LineOV>>

\* C14: in Ready(h, s) every line, whatever its kind, causes exactly one
\* call of the emitter, with the Change made of the repository, h and s;
\* if the call succeeds the state becomes Reset when the line is empty and
\* AwaitingPath(h) otherwise, and if it fails run returns the emitter's
\* error: no line makes a parser fail in Ready.
C14_ReadyStep ==
    (IsEmit(state) /\ Stepped) =>
        /\ Len(emitter') = Len(emitter) + 1
        /\ SubSeq(emitter', 1, Len(emitter)) = emitter
        /\ LET call == emitter'[Len(emitter')]
           IN  /\ call.change.repo = repository
               /\ call.change.sha = state[2].sha
               /\ call.change.author = state[2].author
               /\ call.change.timestamp = state[2].timestamp
               /\ call.change.path = state[3].path
               /\ call.change.additions = state[3].additions
               /\ call.change.deletions = state[3].deletions
               /\ IsOk(call.returned) =>
                     /\ result' = None
                     /\ state' = IF Yielded = "" THEN StateReset
                                  ELSE StateNext(state[2])
               /\ IsErr(call.returned) => result' = Some(call.returned)

C14_ReadyEmitsOnce == [][C14_ReadyStep]_vars

\* A line matching no grammar arrived in Ready: one emission, then
\* AwaitingPath with the same header.
C14_Witness ==
    /\ consumed = <<LineH1, LineP1, LineG>>
    /\ Len(emitter) = 1 /\ emitter[1].at = 3
    /\ state = StateNext(HeaderOf(LineH1))
    /\ result = None

\* The header a Change carries.
HeaderIn(change) ==
    [sha |-> change.sha, author |-> change.author, timestamp |-> change.timestamp]

\* The emitter was called, successfully, while line k was being processed.
EmittedAt(k) ==
    \E i \in 1..Len(emitter) : emitter[i].at = k /\ IsOk(emitter[i].returned)

\* The header of the Change handed over while line k was being processed.
HeaderAt(k) ==
    HeaderIn(emitter[CHOOSE i \in 1..Len(emitter) : emitter[i].at = k].change)

\* The state and result are what the arm's return value r leaves behind.
Left(r) ==
    IF IsOk(r) THEN state = r[2] /\ ~ReturnedErr ELSE result = Some(r)

\* C15 as stated: a non-empty line that arrives in Ready(h, s) becomes the
\* input of a step taken from AwaitingPath(h), so once the line has been
\* dealt with the machine is where AwaitingPath(h) goes on that line.
C15_LineReprocessed ==
    LET n == Len(consumed)
    IN  (n >= 1 /\ EmittedAt(n) /\ consumed[n] # "") =>
            Left(NextArm(HeaderAt(n), consumed[n]))

\* C15 amended: a non-empty line that arrives in Ready(h, s) is not parsed
\* at that step nor later: it is consumed and dropped.  The next step is
\* taken from AwaitingPath(h) on the line that follows it, never calls the
\* emitter, and leaves the machine where AwaitingPath(h) goes on that
\* following line.
C15_LineDropped ==
    LET n == Len(consumed)
    IN  /\ (n >= 1 /\ EmittedAt(n) /\ consumed[n] # "") =>
              state = StateNext(HeaderAt(n)) /\ ~ReturnedErr
        /\ (n >= 2 /\ EmittedAt(n - 1) /\ consumed[n - 1] # "") =>
              /\ \A i \in 1..Len(emitter) : emitter[i].at # n
              /\ Left(NextArm(HeaderAt(n - 1), consumed[n]))

\* P2 arrived in Ready and was dropped; the P1 after it was taken from
\* AwaitingPath and is now pending.
C15_Witness ==
    /\ consumed = <<LineH1, LineP1, LineP2, LineP1>>
    /\ Len(emitter) = 1 /\ emitter[1].at = 3
    /\ state = StateEmit(HeaderOf(LineH1), PathOf(LineP1))

\* Every call of the emitter so far was made while the line after a
\* path-stat line was being processed, with the counts and path of that
\* path-stat line, and no line saw two calls.
C16_OneLineBehind ==
    \A k \in 1..Len(emitter) :
        LET at == emitter[k].at
        IN  /\ at \in 2..Len(consumed)
            /\ PathStatLine(consumed[at - 1])
            /\ emitter[k].change.path = PathOf(consumed[at - 1]).path
            /\ emitter[k].change.additions = PathOf(consumed[at - 1]).additions
            /\ emitter[k].change.deletions = PathOf(consumed[at - 1]).deletions
            /\ \A j \in 1..(k - 1) : emitter[j].at < at

\* The emitter is called only by a step that consumes a line in Ready, and
\* such a step calls it once, for the line consumed just before.
C16_CallStep ==
    /\ ~(IsEmit(state) /\ Stepped) => emitter' = emitter
    /\ (IsEmit(state) /\ Stepped) =>
          /\ Len(emitter') = Len(emitter) + 1
          /\ emitter'[Len(emitter')].at = Len(consumed')
          /\ PathStatLine(consumed[Len(consumed)])
          /\ emitter'[Len(emitter')].change.path
                = PathOf(consumed[Len(consumed)]).path

\* C16: emission is deferred by exactly one line.  The Change built from
\* the path-stat line at position i is handed to the emitter while line
\* i + 1 is being processed and at no other time; a step taken from Reset
\* or AwaitingPath, and the end of the input, never call the emitter; no
\* line causes two calls.
C16_DeferredByOneLine == []C16_OneLineBehind /\ [][C16_CallStep]_vars

\* Two emissions, each one line after its path-stat line.
C16_Witness ==
    /\ consumed = <<LineH1, LineP1, LineG, LineP2, LineEmpty>>
    /\ Len(emitter) = 2
    /\ emitter[1].at = 3 /\ emitter[1].change.path = PathOf(LineP1).path
    /\ emitter[2].at = 5 /\ emitter[2].change.path = PathOf(LineP2).path

\* The input so far is one commit: a header line, n path-stat lines and an
\* empty line.
IsCommitOf(n) ==
    /\ Len(consumed) = n + 2
    /\ HeaderLine(consumed[1])
    /\ \A i \in 2..(n + 1) : PathStatLine(consumed[i])
    /\ consumed[n + 2] = ""

\* C17: for a commit given as a header line, n >= 2 path-stat lines and an
\* empty line, with an emitter that does not fail, run emits fewer than n
\* Changes: the 1st, 3rd, 5th, ... path-stat lines, in that order, each
\* under the commit's header, ceil(n / 2) in all; the path-stat lines at
\* even positions yield nothing.
C17_OddPositionsEmitted ==
    \A n \in 2..MaxLines :
        (IsCommitOf(n) /\ ~ReturnedErr) =>
            /\ Len(emitter) = (n + 1) \div 2
            /\ Len(emitter) < n
            /\ \A k \in 1..Len(emitter) :
                  LET from == consumed[1 + (2 * k - 1)]
                  IN  /\ emitter[k].change.path = PathOf(from).path
                      /\ emitter[k].change.additions = PathOf(from).additions
                      /\ emitter[k].change.deletions = PathOf(from).deletions
                      /\ HeaderIn(emitter[k].change) = HeaderOf(consumed[1])

\* Three path-stat lines: the first and the third are emitted.
C17_Witness ==
    /\ consumed = <<LineH1, LineP1, LineP2, LinePH, LineEmpty>>
    /\ ReturnedOk
    /\ Len(emitter) = 2
    /\ emitter[1].change.path = PathOf(LineP1).path
    /\ emitter[2].change.path = PathOf(LinePH).path

\* The lines that are, as a whole, "<sha>","<author>","<timestamp>".
HeaderGrammarLines ==
    {l \in Lines :
        LET c == HeaderCaptures(l)
        IN  c # None /\ c[2].first = 1 /\ c[2].last = Len(l)}

\* The lines that are, as a whole, <digits><spaces><digits><spaces><path>.
NumstatGrammarLines == {l \in Lines : NumstatLine(l)}

\* C18: on an input that run processes without failing, in which header
\* text occurs only as whole header lines and every Change is built from a
\* whole numstat line, every emitted Change carries the sha, author and
\* timestamp of the last header line that precedes the path-stat line the
\* Change was built from.
C18_HeaderOfOwnCommit ==
    (/\ ReturnedOk
     /\ \A i \in 1..Len(consumed) :
           HeaderLine(consumed[i]) => consumed[i] \in HeaderGrammarLines
     /\ \A k \in 1..Len(emitter) :
           consumed[emitter[k].at - 1] \in NumstatGrammarLines)
    => \A k \in 1..Len(emitter) :
          LET from    == emitter[k].at - 1
              headers == {j \in 1..(from - 1) : consumed[j] \in HeaderGrammarLines}
          IN  /\ headers # {}
              /\ HeaderIn(emitter[k].change) = HeaderOf(consumed[Max(headers)])

\* The k-th Change handed to the emitter has the counts and the path of
\* the consumed line i, which is a path-stat line.
BuiltFrom(k, i) ==
    /\ PathStatLine(consumed[i])
    /\ emitter[k].change.path = PathOf(consumed[i]).path
    /\ emitter[k].change.additions = PathOf(consumed[i]).additions
    /\ emitter[k].change.deletions = PathOf(consumed[i]).deletions

\* The Changes from the k-th on can be assigned, in order, to distinct
\* consumed lines from position i on.  (Taking the first line that fits
\* loses nothing.)
RECURSIVE Embeds(_, _)
Embeds(k, i) ==
    IF k > Len(emitter) THEN TRUE
    ELSE IF i > Len(consumed) THEN FALSE
    ELSE IF BuiltFrom(k, i) THEN Embeds(k + 1, i + 1)
    ELSE Embeds(k, i + 1)

\* C19: after any prefix of the input, the Changes handed to the emitter so
\* far are, in order, built from a subsequence of the path-stat lines
\* consumed so far: each from a line of its own, no line twice, emission
\* order equal to input order.
C19_SubsequenceOfPathStatLines == Embeds(1, 1)

\* Two Changes from two equal path-stat lines, the one between them dropped.
C19_Witness ==
    /\ consumed = <<LineH1, LineP1, LineP2, LineP1, LineG>>
    /\ Len(emitter) = 2
    /\ emitter[1].change.path = PathOf(LineP1).path
    /\ emitter[2].change.path = PathOf(LineP1).path
    /\ result = None

\* A step of run consumes nothing or exactly the next line, after the ones
\* consumed before, and it either consumes a line or makes run return, so
\* an input of n lines allows n + 1 steps at most; a step that ends run at
\* the end of the input returns success and calls nothing.
C20_RunStep ==
    /\ (input = None /\ result = None) =>
          \/ result' # None /\ consumed' = consumed
          \/ Len(consumed') = Len(consumed) + 1
    /\ result # None => UNCHANGED <<consumed, state, emitter, result>>
    /\ \/ consumed' = consumed
       \/ /\ Len(consumed') = Len(consumed) + 1
          /\ SubSeq(consumed', 1, Len(consumed)) = consumed
    /\ (result = None /\ result' # None /\ ~Stepped) =>
          result' = Some(Ok(Unit)) /\ emitter' = emitter /\ state' = state

\* While run has not returned it can take a step: the end of the input is
\* accepted in the state it is in.  On the empty input and on a single header line run
\* returns success without an emission.
C20_EndAccepted ==
    /\ (input = None /\ ~Returned) => ENABLED Finish
    /\ (Returned /\ consumed = <<>>) => ReturnedOk /\ emitter = <<>>
    /\ (Returned /\ Len(consumed) = 1 /\ HeaderLine(consumed[1])) =>
          ReturnedOk /\ emitter = <<>>

\* C20: on every finite input run returns, having consumed each line at
\* most once and in input order; when the input ends without a parse or
\* sink failure run returns success whatever the state (Reset, AwaitingPath
\* or Ready), so the empty input and a single header line both give success
\* with zero emissions.
C20_Terminates == [][C20_RunStep]_vars /\ []C20_EndAccepted

\* A single header line, then the end of the input: success, no emission.
C20_Witness ==
    /\ consumed = <<LineH1>>
    /\ state = StateNext(HeaderOf(LineH1))
    /\ ReturnedOk
    /\ emitter = <<>>

----------------------------------------------------------------------------
(* The direct calls                                                        *)

Called(f) == input[1] = f /\ output # None
Value == output[2]

\* The letters t, e, s, t stand next to each other somewhere in p.
HasTest(p) ==
    \E i \in 1..Len(p) :
        /\ i + 3 <= Len(p)
        /\ At(p, i) = "t" /\ At(p, i + 1) = "e"
        /\ At(p, i + 2) = "s" /\ At(p, i + 3) = "t"

CategoryOf(p) == IF HasTest(p) THEN "Test" ELSE "Default"

\* C11: Change::categorize(p) is Test exactly when the lower-case letters
\* "test" occur next to each other somewhere in p, and Default otherwise;
\* the category of every Change, built directly or handed to the emitter by
\* run, is the category of its own path.
C11_CategoryIsTestSubstring ==
    /\ Called("Change::categorize") => Value = CategoryOf(input[2])
    /\ Called("Into") =>
          Value.path = input[3].path /\ Value.category = CategoryOf(Value.path)
    /\ \A k \in 1..Len(emitter) :
          emitter[k].change.category = CategoryOf(emitter[k].change.path)

\* "test" in the middle of a name: "/attestation" is categorized Test.
C11_Witness ==
    Called("Change::categorize") /\ input[2] = "/attestation" /\ Value = "Test"

\* The text after the final "." of the piece p[i..j], absent when the piece
\* has no dot or its only dot is its first character.
AfterFinalDot(p, i, j) ==
    LET dots == {k \in i..j : At(p, k) = "."}
    IN  IF dots = {} \/ dots = {i} THEN None
        ELSE Some(SubSeq(p, Max(dots) + 1, j))

\* The extension of the final '/'-delimited component of p, which is empty
\* when p ends in '/'.
ExtOfFinalComponent(p) ==
    LET slashes == {k \in 1..Len(p) : At(p, k) = "/"}
        i       == IF slashes = {} THEN 1 ELSE Max(slashes) + 1
    IN  AfterFinalDot(p, i, Len(p))

\* The '/'-delimited components of p other than "" and ".", as the pairs
\* of their first and last position.
NamedComponents(p) ==
    LET ends == {j \in 1..Len(p) :
                    At(p, j) # "/" /\ (j = Len(p) \/ At(p, j + 1) = "/")}
        startOf(j) == Max({k \in 1..j : k = 1 \/ At(p, k - 1) = "/"})
    IN  {c \in {<<startOf(j), j>> : j \in ends} : SubSeq(p, c[1], c[2]) # "."}

\* The extension of the last component of p that is neither empty nor ".",
\* absent when there is none or when it is "..".
ExtOfFileName(p) ==
    LET named == NamedComponents(p)
    IN  IF named = {} THEN None
        ELSE LET c == CHOOSE c \in named : \A d \in named : d[1] <= c[1]
             IN  IF SubSeq(p, c[1], c[2]) = ".." THEN None
                 ELSE AfterFinalDot(p, c[1], c[2])

\* C12 as stated: the ext of the Change built from p is the text after the
\* final "." of the final '/'-delimited component of p, absent exactly when
\* that component has no dot or its only dot is its first character.
C12_ExtOfFinalComponent ==
    Called("Into") => Value.ext = ExtOfFinalComponent(input[3].path)

\* C12 amended: the ext of the Change built from p is the text after the
\* final "." of the last component of p that is neither empty nor ".";
\* it is absent when p has no such component, when that component is "..",
\* has no dot, or has its only dot as its first character.  A name ending
\* in "." has the empty text as its ext.  The same holds of each Change at
\* the moment run hands it to the emitter.
C12_ExtOfFileName ==
    /\ Called("Into") => Value.ext = ExtOfFileName(input[3].path)
    /\ (emitter # <<>> /\ emitter[Len(emitter)].at = Len(consumed)) =>
          LET handed == emitter[Len(emitter)].change
          IN  handed.ext = ExtOfFileName(handed.path)

\* A path ending in '/' keeps the extension of the component before it.
C12_Witness ==
    Called("Into") /\ input[3].path = "a.b/c.d/" /\ Value.ext = Some("d")

\* Each line made of two digit runs that fit in usize and a path, with the
\* Path it writes.
NumstatWrites ==
    {<<NumstatOf(a[1], w1, d[1], w2, p),
       [additions |-> a[2], deletions |-> d[2], path |-> p]>> :
        a \in ProbeCounts, w1 \in ProbeSeps, d \in ProbeCounts,
        w2 \in ProbeSeps, p \in ProbeNames}

\* Each line whose two count fields are the binary placeholder.
BinaryWrites ==
    {NumstatOf("-", w1, "-", w2, p) :
        w1 \in ProbeSeps, w2 \in ProbeSeps, p \in ProbeNames}

\* The white space outside ASCII separates the fields as a blank does, and
\* ends the path.
WideSeparatorsRead ==
    /\ \A w1, w2 \in {NextLine, NoBreakSpace, OghamSpaceMark} :
          ParsePath(NumstatOf("7", w1, "10", w2, "f"))
            = Ok([additions |-> 7, deletions |-> 10, path |-> "f"])
    /\ ParsePath("1 2 f" \o NoBreakSpace \o "g")
          = Ok([additions |-> 1, deletions |-> 2, path |-> "f"])

\* The failure of parse::<usize> on a digit run.
TooLarge(r) ==
    IsErr(r) /\ SubSeq(r[2].msg, 1, 16) = "number too large"
InvalidDigit(r) ==
    IsErr(r) /\ SubSeq(r[2].msg, 1, 13) = "invalid digit"

\* A digit run that holds a decimal digit outside ASCII is matched by the
\* regex and then rejected, unless its ASCII digits up to there already
\* exceed usize::MAX.
WideDigitsRejected ==
    LET wide == At(NonAsciiDigitChars, 2)
    IN  /\ InvalidDigit(ParsePath(NumstatOf(wide, " ", "2", " ", "f")))
        /\ InvalidDigit(ParsePath(NumstatOf("1", " ", "2" \o wide, " ", "f")))
        /\ InvalidDigit(ParsePath(NumstatOf(UsizeMaxDigits \o wide, " ", "2", " ", "f")))
        /\ \A a \in ProbeOverflows :
              TooLarge(ParsePath(NumstatOf(a \o wide, " ", "2", " ", "f")))

\* C13 as stated: applied to any line made of a digit run, whitespace, a
\* digit run, whitespace and a path without whitespace, the Path parser
\* succeeds, with path the path run; applied to a line whose two count
\* fields are the binary placeholder '-', it fails.
C13_EveryDigitRunRead ==
    Called("Path::from_str") =>
        /\ \A w \in NumstatWrites : input[2] = w[1] => Value = Ok(w[2])
        /\ input[2] \in ProbeOverflowLines => IsOk(Value) /\ Value[2].path = "f"
        /\ input[2] \in BinaryWrites => IsErr(Value)

\* C13 amended: applied to a line made of a digit run, whitespace, a digit
\* run, whitespace and a path without whitespace, the Path parser succeeds
\* with additions and deletions the numbers the two runs write in decimal
\* and with path the path run, provided both runs are ASCII digits and
\* write numbers up to usize::MAX; when a run writes a larger number, or
\* holds a decimal digit outside ASCII, the parser fails.  Applied to a
\* line whose two count fields are the binary placeholder '-', it fails.
C13_PathParserReadsCounts ==
    Called("Path::from_str") =>
        /\ \A w \in NumstatWrites : input[2] = w[1] => Value = Ok(w[2])
        /\ WideSeparatorsRead
        /\ input[2] \in ProbeOverflowLines => TooLarge(Value)
        /\ WideDigitsRejected
        /\ input[2] \in BinaryWrites => IsErr(Value)

\* Leading zeros, a tab and two blanks between the fields.
C13_Witness ==
    /\ Called("Path::from_str")
    /\ input[2] = NumstatOf("007", "\t", "10", "  ", "foo/baz.rs")
    /\ Value = Ok([additions |-> 7, deletions |-> 10, path |-> "foo/baz.rs"])

====
